---- MODULE Spec2Model ----
(***************************************************************************)
(* Model of upload_files_to_gcp.py: schema inference from a ';'-separated  *)
(* CSV file, create-if-absent provisioning of the BigQuery dataset and     *)
(* table, and the per-file orchestration of stage upload and load.         *)
(*                                                                         *)
(* Text is modelled as sequences of lexical units.  A column header is a   *)
(* sequence of characters; a file name is a sequence of tokens in which    *)
(* the marker "_DadosAbertos_" is the single token "M" and a dot with the  *)
(* letters that follow it is one token (".csv", ".CSV", ".txt").  A cell   *)
(* value is a string of ValueUniverse.                                     *)
(***************************************************************************)
EXTENDS Integers, Sequences, FiniteSets, TLC

VARIABLES
    \* ---- get_table_schema_from_csv, run on its own (SpecSchema) ----
    csvfile,              \* the file being read: [readable, lines]
    spc,                  \* position inside get_table_schema_from_csv
    consumed,             \* number of data rows pulled from the csv reader
    failedAt,             \* 0, or the data row index whose read raised
    rows_for_inference,   \* local list of sampled rows
    columns_info,         \* local dict: [order, type]
    row_idx,              \* number of sampled rows already folded into columns_info
    result,               \* return value: [ok, fields]
    \* ---- process_directory / process_and_upload_csv_data (Spec) ----
    listing,              \* os.listdir result: sequence of directory entries
    idx,                  \* position of the for loop of process_directory
    pc,                   \* position inside the current file's processing
    table_id,             \* local of process_and_upload_csv_data
    partition_value,      \* local of process_and_upload_csv_data
    bq_schema,            \* local of process_and_upload_csv_data
    tableRet,             \* how the last ensure_bigquery_table_exists ended
    calls,                \* collaborator calls issued for the current file
    handed,               \* handed[i]: times entry i was given to the orchestrator
    processed_files_count,
    reports,              \* the terminal message printed for each file handed over
    datasetExists,        \* warehouse catalog: the dataset
    tables,               \* warehouse catalog: table id -> schema
    bucket,               \* stage store: uploaded blob names
    loaded,               \* file names whose load job succeeded
    \* ---- infer_column_type, run on its own (SpecInfer) ----
    cells,                \* the values handed to infer_column_type, in turn
    inferred,             \* the types returned so far, one per cell
    inferRaised           \* a call raised instead of returning

schemaVars == <<csvfile, spc, consumed, failedAt, rows_for_inference,
                columns_info, row_idx, result>>
pipeVars == <<listing, idx, pc, table_id, partition_value, bq_schema, tableRet,
              calls, handed, processed_files_count, reports, datasetExists,
              tables, bucket, loaded>>
inferVars == <<cells, inferred, inferRaised>>
vars == <<schemaVars, pipeVars, inferVars>>

(***************************************************************************)
(* Bounds                                                                  *)
(***************************************************************************)
\* sample limit used by the model in place of the default of 100
num_rows_for_inference == 2
\* longest directory listing
MaxFiles == 2
\* data rows of a file: enough to hold a row past the sample limit
MaxDataRows == num_rows_for_inference + 1

(***************************************************************************)
(* Python values of a cell                                                 *)
(***************************************************************************)
PyNone == "<None>"
PyTrue == "<True>"
PyFalse == "<False>"
\* the strings a csv cell takes in the model
ValueUniverse == {"", "1", "2.0", "3.5", "-7", "abc", "inf", "nan"}

\* float(value): how the text parses; a finite value is the fraction num/den
ParseFloat(value) ==
    CASE value = "1" -> [kind |-> "finite", num |-> 1, den |-> 1]
      [] value = "2.0" -> [kind |-> "finite", num |-> 20, den |-> 10]
      [] value = "3.5" -> [kind |-> "finite", num |-> 35, den |-> 10]
      [] value = "-7" -> [kind |-> "finite", num |-> 0 - 7, den |-> 1]
      [] value = "inf" -> [kind |-> "inf", num |-> 0, den |-> 1]
      [] value = "nan" -> [kind |-> "nan", num |-> 0, den |-> 1]
      [] OTHER -> [kind |-> "error", num |-> 0, den |-> 1]
\* int(x) of a finite float: truncation toward zero
TruncToInt(f) == IF f.num >= 0 THEN f.num \div f.den ELSE 0 - ((0 - f.num) \div f.den)

\* float(value) raises ValueError
FloatValueError(value) == ParseFloat(value).kind = "error"
\* float(value) is +-inf: int() of it raises OverflowError
FloatIsInf(value) == ParseFloat(value).kind = "inf"
\* float(value) is nan: int() of it raises ValueError
FloatIsNan(value) == ParseFloat(value).kind = "nan"
\* float(value) == int(float(value)) for a finite float
FloatIsIntegral(value) ==
    LET f == ParseFloat(value)
    IN f.kind = "finite" /\ TruncToInt(f) * f.den = f.num

\* the test of integrality made after the test for a float
infer_column_type_FloatFirst(value) ==
    IF value = PyNone \/ value = "" THEN "STRING"
    ELSE IF value \in {PyTrue, PyFalse} THEN "BOOLEAN"
    ELSE IF FloatValueError(value) THEN "STRING"
    ELSE "FLOAT"

\* infer_column_type: a type, or "OverflowError" when int(float(value)) raises
\* an exception that `except ValueError` does not catch
infer_column_type(value) ==
    IF value = PyNone \/ value = "" THEN "STRING"
    ELSE IF value \in {PyTrue, PyFalse} THEN "BOOLEAN"
    ELSE IF FloatValueError(value) THEN "STRING"
    ELSE IF FloatIsInf(value) THEN "OverflowError"
    ELSE IF FloatIsNan(value) THEN "FLOAT"
    ELSE IF FloatIsIntegral(value) THEN "INTEGER"
    ELSE "FLOAT"

(***************************************************************************)
(* Header sanitization (lines 60 and 73)                                   *)
(***************************************************************************)
\* str.isalnum of one character: letters and digits of any script
isalnum(c) == c \in {"a", "A", "1", "e'", "E'"}
\* str.lower of one character ("E'" stands for an accented capital)
lower(c) == CASE c = "A" -> "a" [] c = "E'" -> "e'" [] OTHER -> c
sanitized_header(header) ==
    [i \in 1..Len(header) |->
        lower(IF isalnum(header[i]) \/ header[i] = "_" THEN header[i] ELSE "_")]

(***************************************************************************)
(* get_table_schema_from_csv as a function of the file                     *)
(***************************************************************************)
NoneResult == [ok |-> FALSE, fields |-> <<>>]
EmptyColumns == [order |-> <<>>, type |-> <<>>]

\* a list of columns in place of the dict: every assignment adds an entry
DictSetAppendAlways(ci, key, type) ==
    [order |-> Append(ci.order, key),
     type |-> [k \in DOMAIN ci.type \cup {key} |-> IF k = key THEN type ELSE ci.type[k]]]

\* columns_info[key] = {'name': key, 'type': 'STRING'}: a new key goes last,
\* an existing key keeps its place
DictSet(ci, key, type) ==
    IF key \in DOMAIN ci.type
    THEN [ci EXCEPT !.type = [k \in DOMAIN ci.type |-> IF k = key THEN type ELSE ci.type[k]]]
    ELSE [order |-> Append(ci.order, key),
          type |-> [k \in DOMAIN ci.type \cup {key} |-> IF k = key THEN type ELSE ci.type[k]]]

\* the type every header starts with (line 61)
InitialType == "STRING"

RECURSIVE HeaderLoop(_, _, _)
\* lines 59-61
HeaderLoop(ci, headers, j) ==
    IF j > Len(headers) THEN ci
    ELSE HeaderLoop(DictSet(ci, sanitized_header(headers[j]), InitialType), headers, j + 1)

\* the type of the value seen last
WidenLastWins(current_type, inferred_type) == inferred_type
\* the initial STRING taken for "no type yet": the first value sets the type
WidenFromUnset(current_type, inferred_type) ==
    IF current_type = "STRING" THEN inferred_type
    ELSE IF inferred_type = "STRING" THEN "STRING"
    ELSE IF inferred_type = "FLOAT" /\ current_type = "INTEGER" THEN "FLOAT"
    ELSE current_type

\* lines 77-80: the new type of a column
Widen(current_type, inferred_type) ==
    IF inferred_type = "STRING" /\ current_type # "STRING" THEN "STRING"
    ELSE IF inferred_type = "FLOAT" /\ current_type = "INTEGER" THEN "FLOAT"
    ELSE current_type

RECURSIVE RowLoop(_, _, _, _)
\* lines 71-80 for one row: the updated columns_info, or raised
RowLoop(st, headers, row, j) ==
    IF j > Len(row) \/ st.raised THEN st
    ELSE IF j > Len(headers) THEN RowLoop(st, headers, row, j + 1)
    ELSE LET header_name == sanitized_header(headers[j])
             inferred_type == infer_column_type(row[j])
         IN IF inferred_type = "OverflowError"
            THEN [st EXCEPT !.raised = TRUE]
            ELSE RowLoop([st EXCEPT !.ci = DictSet(st.ci, header_name,
                                                  Widen(st.ci.type[header_name], inferred_type))],
                         headers, row, j + 1)

\* line 65: a row pulled from the reader at index i is kept
KeepRow(i) == i < num_rows_for_inference

\* lines 82-86
SchemaFields(ci) == [k \in 1..Len(ci.order) |->
                        [name |-> ci.order[k], type |-> ci.type[ci.order[k]]]]

\* one step of `for i, row in enumerate(reader)` (lines 64-68): what pulling the
\* data row of enumerate index i does
Pull(lines, i) ==
    IF i + 2 > Len(lines) THEN "eof"
    ELSE IF ~lines[i + 2].ok THEN "raise"
    ELSE IF KeepRow(i) THEN "keep"
    ELSE "break"

RECURSIVE SampleLoop(_, _, _)
\* lines 63-68: the rows kept, how many data rows were pulled from the reader,
\* and whether a pull raised
SampleLoop(lines, i, kept) ==
    LET p == Pull(lines, i)
    IN IF p = "eof" THEN [rows |-> kept, consumed |-> i, raised |-> FALSE]
       ELSE IF p = "raise" THEN [rows |-> kept, consumed |-> i + 1, raised |-> TRUE]
       ELSE IF p = "keep" THEN SampleLoop(lines, i + 1, Append(kept, lines[i + 2].fields))
       ELSE [rows |-> kept, consumed |-> i + 1, raised |-> FALSE]

RECURSIVE WidenLoop(_, _, _, _)
\* lines 70-80
WidenLoop(st, headers, rows, r) ==
    IF r > Len(rows) \/ st.raised THEN st
    ELSE WidenLoop(RowLoop(st, headers, rows[r], 1), headers, rows, r + 1)

get_table_schema_from_csv(file) ==
    IF ~file.readable \/ Len(file.lines) = 0 \/ ~file.lines[1].ok THEN NoneResult
    ELSE LET headers == file.lines[1].fields
             sample == SampleLoop(file.lines, 0, <<>>)
             final == WidenLoop([ci |-> HeaderLoop(EmptyColumns, headers, 1), raised |-> FALSE],
                                headers, sample.rows, 1)
         IN IF sample.raised \/ final.raised THEN NoneResult
            ELSE [ok |-> TRUE, fields |-> SchemaFields(final.ci)]

(***************************************************************************)
(* Files of the model                                                      *)
(***************************************************************************)
\* a line the reader cannot deliver (decoding error, csv.Error)
BadLine == [ok |-> FALSE, fields |-> <<>>]
Line(fields) == [ok |-> TRUE, fields |-> fields]

HeaderLineUniverse ==
    { <<>>,                                   \* blank first line: no header field
      << <<"A">> >>,
      << <<"a">>, <<"A">> >>,                 \* two headers, one identifier
      << <<"a", "-">>, <<"1">> >>,
      << <<"a">>, <<"1">>, <<"A">> >>,        \* the third header repeats the first
      << <<"E'", "-">> >> }                   \* an accented capital
RowUniverse ==
    { << "1" >>,
      << "3.5", "1" >>,
      << "abc", "2.0", "1" >>,
      << "", "3.5" >>,
      << "inf" >> }
LineUniverse(fieldsSet) == {Line(f) : f \in fieldsSet} \cup {BadLine}

RECURSIVE SeqsUpTo(_, _)
\* all sequences over S of length at most n
SeqsUpTo(S, n) ==
    IF n = 0 THEN { <<>> }
    ELSE LET shorter == SeqsUpTo(S, n - 1)
         IN shorter \cup {Append(q, x) : q \in {t \in shorter : Len(t) = n - 1}, x \in S}

UnreadableFile == [readable |-> FALSE, lines |-> <<>>]
EmptyFile == [readable |-> TRUE, lines |-> <<>>]
FileUniverse ==
    {UnreadableFile, EmptyFile} \cup
    { [readable |-> TRUE, lines |-> <<h>> \o rows] :
        h \in LineUniverse(HeaderLineUniverse),
        rows \in SeqsUpTo(LineUniverse(RowUniverse), MaxDataRows) }

(***************************************************************************)
(* infer_column_type, call by call                                         *)
(***************************************************************************)
\* what a caller may hand over: csv text, None, or a bool
CellUniverse == ValueUniverse \cup {PyNone, PyTrue, PyFalse}

IdleInfer == cells = <<>> /\ inferred = <<>> /\ inferRaised = FALSE

\* lines 29-47 on the next cell
InferCell ==
    /\ ~inferRaised
    /\ Len(inferred) < Len(cells)
    /\ LET t == infer_column_type(cells[Len(inferred) + 1])
       IN IF t = "OverflowError"
          THEN inferRaised' = TRUE /\ UNCHANGED inferred
          ELSE inferred' = Append(inferred, t) /\ UNCHANGED inferRaised
    /\ UNCHANGED <<cells, schemaVars, pipeVars>>

(***************************************************************************)
(* get_table_schema_from_csv, step by step                                 *)
(***************************************************************************)
IdleSchema ==
    /\ spc = "idle" /\ csvfile = UnreadableFile /\ consumed = 0 /\ failedAt = 0
    /\ rows_for_inference = <<>> /\ columns_info = EmptyColumns
    /\ row_idx = 0 /\ result = NoneResult

\* lines 87-89: every exception inside the function becomes None
ReturnNone ==
    /\ result' = NoneResult
    /\ spc' = "done"

\* lines 55-61: open, read the header row, fill columns_info
ReadHeader ==
    /\ spc = "open"
    /\ IF ~csvfile.readable \/ Len(csvfile.lines) = 0 \/ ~csvfile.lines[1].ok
       THEN /\ ReturnNone
            /\ UNCHANGED columns_info
       ELSE /\ columns_info' = HeaderLoop(EmptyColumns, csvfile.lines[1].fields, 1)
            /\ spc' = "sample"
            /\ UNCHANGED result
    /\ UNCHANGED <<csvfile, consumed, failedAt, rows_for_inference, row_idx>>
    /\ UNCHANGED <<pipeVars, inferVars>>

\* lines 64-68: one iteration of the sampling loop
ReadRow ==
    /\ spc = "sample"
    /\ LET p == Pull(csvfile.lines, consumed)
       IN \/ /\ p = "eof"
             /\ spc' = "widen"
             /\ UNCHANGED <<consumed, failedAt, rows_for_inference, result>>
          \/ /\ p = "raise"
             /\ consumed' = consumed + 1
             /\ failedAt' = consumed + 1
             /\ ReturnNone
             /\ UNCHANGED rows_for_inference
          \/ /\ p = "keep"
             /\ consumed' = consumed + 1
             /\ rows_for_inference' = Append(rows_for_inference, csvfile.lines[consumed + 2].fields)
             /\ UNCHANGED <<spc, failedAt, result>>
          \/ /\ p = "break"
             /\ consumed' = consumed + 1
             /\ spc' = "widen"
             /\ UNCHANGED <<failedAt, rows_for_inference, result>>
    /\ UNCHANGED <<csvfile, columns_info, row_idx>>
    /\ UNCHANGED <<pipeVars, inferVars>>

\* lines 70-80: one sampled row folded into columns_info
WidenRow ==
    /\ spc = "widen"
    /\ row_idx < Len(rows_for_inference)
    /\ LET st == RowLoop([ci |-> columns_info, raised |-> FALSE], csvfile.lines[1].fields,
                         rows_for_inference[row_idx + 1], 1)
       IN IF st.raised
          THEN /\ ReturnNone
               /\ UNCHANGED <<columns_info, row_idx>>
          ELSE /\ columns_info' = st.ci
               /\ row_idx' = row_idx + 1
               /\ UNCHANGED <<spc, result>>
    /\ UNCHANGED <<csvfile, consumed, failedAt, rows_for_inference>>
    /\ UNCHANGED <<pipeVars, inferVars>>

\* lines 82-86
ReturnSchema ==
    /\ spc = "widen"
    /\ row_idx = Len(rows_for_inference)
    /\ result' = [ok |-> TRUE, fields |-> SchemaFields(columns_info)]
    /\ spc' = "done"
    /\ UNCHANGED <<csvfile, consumed, failedAt, rows_for_inference, columns_info, row_idx>>
    /\ UNCHANGED <<pipeVars, inferVars>>

(***************************************************************************)
(* File names (lines 174-196)                                              *)
(***************************************************************************)
\* the marker '_DadosAbertos_' as one token
Marker == "M"
IsDotToken(t) == t \in {".csv", ".CSV", ".txt"}
\* str.lower of one token
lowerToken(t) ==
    CASE t = "A" -> "a" [] t = "B" -> "b" [] t = "M" -> "m"
      [] t = ".CSV" -> ".csv" [] OTHER -> t
LowerName(s) == [i \in 1..Len(s) |-> lowerToken(s[i])]

\* os.path.splitext: the extension starts at the last dot, unless nothing
\* precedes that dot
splitext(filename) ==
    LET dots == {i \in 1..Len(filename) : IsDotToken(filename[i])}
        p == IF dots = {} THEN 0 ELSE CHOOSE i \in dots : \A k \in dots : k <= i
    IN IF p <= 1 THEN [root |-> filename, ext |-> <<>>]
       ELSE [root |-> SubSeq(filename, 1, p - 1), ext |-> SubSeq(filename, p, Len(filename))]

RECURSIVE split(_, _)
\* str.split(sep): every occurrence of sep separates two parts
split(s, sep) ==
    LET hits == {i \in 1..Len(s) : s[i] = sep}
    IN IF hits = {} THEN <<s>>
       ELSE LET i == CHOOSE h \in hits : \A k \in hits : h <= k
            IN <<SubSeq(s, 1, i - 1)>> \o split(SubSeq(s, i + 1, Len(s)), sep)

\* lines 185-187
SplitOnMarker(base_name) == split(base_name, Marker)

\* the naming step without the check of an empty partition value
ResolveNamingNoPartitionCheck(filename) ==
    LET se == splitext(filename)
        parts == SplitOnMarker(se.root)
    IN IF LowerName(se.ext) # <<".csv">>
       THEN [outcome |-> "not_csv", table_id |-> <<>>, partition_value |-> <<>>]
       ELSE IF \A i \in 1..Len(se.root) : se.root[i] # Marker
       THEN [outcome |-> "no_marker", table_id |-> <<>>, partition_value |-> <<>>]
       ELSE IF LowerName(parts[1]) = <<>>
       THEN [outcome |-> "no_table_id", table_id |-> <<>>, partition_value |-> <<>>]
       ELSE [outcome |-> "ok", table_id |-> LowerName(parts[1]), partition_value |-> parts[2]]

\* lines 174-196: what the naming step decides for a file name
ResolveNaming(filename) ==
    LET se == splitext(filename)
        parts == SplitOnMarker(se.root)
    IN IF LowerName(se.ext) # <<".csv">>
       THEN [outcome |-> "not_csv", table_id |-> <<>>, partition_value |-> <<>>]
       ELSE IF \A i \in 1..Len(se.root) : se.root[i] # Marker
       THEN [outcome |-> "no_marker", table_id |-> <<>>, partition_value |-> <<>>]
       ELSE IF LowerName(parts[1]) = <<>>
       THEN [outcome |-> "no_table_id", table_id |-> <<>>, partition_value |-> <<>>]
       ELSE IF parts[2] = <<>>
       THEN [outcome |-> "no_partition_value", table_id |-> <<>>, partition_value |-> <<>>]
       ELSE [outcome |-> "ok", table_id |-> LowerName(parts[1]), partition_value |-> parts[2]]

(***************************************************************************)
(* Directory entries of the model                                          *)
(***************************************************************************)
CsvA == [readable |-> TRUE, lines |-> << Line(<< <<"A">> >>), Line(<< "1" >>) >>]
CsvB == [readable |-> TRUE,
         lines |-> << Line(<< <<"a", "-">>, <<"1">> >>), Line(<< "3.5", "1" >>) >>]
CsvBlankHeader == [readable |-> TRUE, lines |-> << Line(<<>>) >>]
CsvInf == [readable |-> TRUE, lines |-> << Line(<< <<"A">> >>), Line(<< "inf" >>) >>]

File(name, content) == [name |-> name, isfile |-> TRUE, content |-> content]
Directory(name) == [name |-> name, isfile |-> FALSE, content |-> UnreadableFile]

EntryUniverse ==
    { File(<<"A", "M", "2", ".csv">>, CsvA),
      File(<<"a", "M", "3", ".CSV">>, CsvB),              \* same table, other schema
      File(<<"b", "M", "2", ".csv">>, EmptyFile),         \* inference returns None
      File(<<"b", "M", "3", ".csv">>, CsvBlankHeader),    \* inference returns []
      File(<<"b", "M", "4", ".csv">>, CsvInf),
      File(<<"n", ".txt">>, CsvA),
      File(<<"a", "b", ".csv">>, CsvA),                   \* no marker
      File(<<"M", "2", ".csv">>, CsvA),                   \* nothing before the marker
      File(<<"a", "M", ".csv">>, CsvA),                   \* nothing after the marker
      File(<<"B", "M", "2", "M", "x", ".csv">>, CsvA),    \* marker twice
      File(<<"B", "M", "M", "x", ".csv">>, CsvA),         \* marker twice, adjacent
      Directory(<<"d">>) }

PreexistingSchema == << [name |-> <<"x">>, type |-> "STRING"] >>
NoTables == <<>>
CatalogUniverse ==
    { [dataset |-> FALSE, tables |-> NoTables],
      [dataset |-> TRUE, tables |-> NoTables],
      [dataset |-> TRUE, tables |-> (<<"a">> :> PreexistingSchema)] }

(***************************************************************************)
(* Collaborators                                                           *)
(***************************************************************************)
Call(op, res) == [op |-> op, res |-> res]

\* get_dataset / get_table: NotFound exactly when the entity is absent, or
\* any other error
ProbeOutcomes(exists) == IF exists THEN {"found", "error"} ELSE {"notfound", "error"}
\* create_dataset / create_table: creating what exists is a Conflict error
CreateOutcomes(exists) == IF exists THEN {"error"} ELSE {"ok", "error"}

\* a dataset probe that failed for any reason taken for absence
CreateDatasetAfterAnyFailure(probe) == probe # "found"
\* `except NotFound:` (line 99): the probe outcomes that lead to create_dataset
CreateDatasetAfterProbe(probe) == probe = "notfound"

\* create_table issued without looking at the probe
CreateTableAlways(probe) == TRUE
\* `except NotFound:` (line 115): the probe outcomes that lead to create_table
CreateTableAfterProbe(probe) == probe = "notfound"

\* a failed probe answered with True
EnsureTableEndsTrueOnProbeError(probe, create) ==
    IF create = "error" THEN "raise" ELSE "True"

\* how ensure_bigquery_table_exists ends (lines 111-123); create is "none"
\* when no create call was issued.  An exception raised inside the
\* `except NotFound` clause is not handled by the `except Exception` clause
\* of the same try statement.
EnsureTableEnds(probe, create) ==
    IF create = "ok" THEN "True"
    ELSE IF create = "error" THEN "raise"
    ELSE IF probe = "found" THEN "True"
    ELSE "False"

\* the inferred schema also written to a table that was found
TablesAlteredWhenFound(tbls, id, schema, probe, create) ==
    IF create = "ok" THEN tbls @@ (id :> schema)
    ELSE IF probe = "found" THEN [tbls EXCEPT ![id] = schema]
    ELSE tbls
\* the catalog after ensure_bigquery_table_exists (lines 112-118): the schema
\* is used by create_table alone
TablesAfterEnsure(tbls, id, schema, probe, create) ==
    IF create = "ok" THEN tbls @@ (id :> schema) ELSE tbls

\* how ensure_bigquery_dataset_exists ends (lines 96-102)
EnsureDatasetEnds(probe, create) ==
    IF create = "ok" THEN "return"
    ELSE IF create = "error" THEN "raise"
    ELSE IF probe = "found" THEN "return"
    ELSE "raise"

\* no handler at the file-processing boundary
AfterExceptionUncaught == "aborted"

\* lines 217-218: where an exception raised inside the try block leads
AfterException == "returned"

\* the result of the inference used unchecked
SchemaNotChecked(schema) == TRUE

\* the result of the inference compared with None only
SchemaOnlyNoneChecked(schema) == schema.ok

\* line 201: `not bq_schema` is false
SchemaUsable(schema) == schema.ok /\ Len(schema.fields) > 0

\* the result of ensure_bigquery_table_exists ignored
AfterEnsureTableIgnoringResult(ret) ==
    IF ret = "raise" THEN AfterException ELSE "upload"

\* line 205: the orchestrator goes on after ensure_bigquery_table_exists
AfterEnsureTable(ret) ==
    CASE ret = "True" -> "upload"
      [] ret = "False" -> "returned"
      [] OTHER -> AfterException

(***************************************************************************)
(* process_directory and process_and_upload_csv_data, step by step         *)
(***************************************************************************)
IdlePipe ==
    /\ listing = <<>> /\ idx = 1 /\ pc = "idle"
    /\ table_id = <<>> /\ partition_value = <<>> /\ bq_schema = NoneResult
    /\ tableRet = "none" /\ calls = <<>> /\ handed = <<>>
    /\ processed_files_count = 0 /\ reports = <<>>
    /\ datasetExists = FALSE /\ tables = NoTables /\ bucket = {} /\ loaded = {}

entry == listing[idx]
catalogVars == <<datasetExists, tables, bucket, loaded>>
localVars == <<table_id, partition_value, bq_schema, tableRet>>
loopVars == <<listing, idx, handed, processed_files_count>>

\* the file's processing moves to `target`; when that ends the processing,
\* `message` is what was printed last for the file
GoTo(target, message) ==
    /\ pc' = target
    /\ reports' = IF target = "returned" THEN Append(reports, message) ELSE reports

\* lines 232-237: the next directory entry; a regular file is handed to
\* process_and_upload_csv_data
NextEntry ==
    /\ pc = "loop"
    /\ idx <= Len(listing)
    /\ IF entry.isfile
       THEN /\ pc' = "naming"
            /\ handed' = [handed EXCEPT ![idx] = @ + 1]
            /\ calls' = <<>>
            /\ table_id' = <<>>
            /\ partition_value' = <<>>
            /\ bq_schema' = NoneResult
            /\ tableRet' = "none"
            /\ UNCHANGED idx
       ELSE /\ idx' = idx + 1
            /\ UNCHANGED <<pc, handed, calls, localVars>>
    /\ UNCHANGED <<listing, processed_files_count, reports, catalogVars, schemaVars, inferVars>>

\* lines 174-196
Naming ==
    /\ pc = "naming"
    /\ LET r == ResolveNaming(entry.name)
       IN /\ table_id' = r.table_id
          /\ partition_value' = r.partition_value
          /\ GoTo(IF r.outcome = "ok" THEN "dataset" ELSE "returned", r.outcome)
    /\ UNCHANGED <<loopVars, bq_schema, tableRet, calls, catalogVars, schemaVars, inferVars>>

\* line 198 with lines 91-102
ensure_bigquery_dataset_exists ==
    /\ pc = "dataset"
    /\ \E probe \in ProbeOutcomes(datasetExists) :
         IF CreateDatasetAfterProbe(probe)
         THEN \E create \in CreateOutcomes(datasetExists) :
                /\ calls' = calls \o <<Call("get_dataset", probe), Call("create_dataset", create)>>
                /\ datasetExists' = (datasetExists \/ create = "ok")
                /\ GoTo(IF EnsureDatasetEnds(probe, create) = "return"
                        THEN "schema" ELSE AfterException, "unexpected_error")
         ELSE /\ calls' = Append(calls, Call("get_dataset", probe))
              /\ UNCHANGED datasetExists
              /\ GoTo(IF EnsureDatasetEnds(probe, "none") = "return"
                      THEN "schema" ELSE AfterException, "unexpected_error")
    /\ UNCHANGED <<loopVars, localVars, tables, bucket, loaded, schemaVars, inferVars>>

\* lines 200-203
InferSchema ==
    /\ pc = "schema"
    /\ LET schema == get_table_schema_from_csv(entry.content)
       IN /\ bq_schema' = schema
          /\ calls' = Append(calls, Call("infer_schema",
                                         IF ~schema.ok THEN "error"
                                         ELSE IF Len(schema.fields) = 0 THEN "empty" ELSE "ok"))
          /\ GoTo(IF SchemaUsable(schema) THEN "table" ELSE "returned", "schema_failed")
    /\ UNCHANGED <<loopVars, table_id, partition_value, tableRet, catalogVars, schemaVars, inferVars>>

\* lines 205-207 with lines 104-123
ensure_bigquery_table_exists ==
    /\ pc = "table"
    /\ \E probe \in ProbeOutcomes(table_id \in DOMAIN tables) :
         IF CreateTableAfterProbe(probe)
         THEN \E create \in CreateOutcomes(table_id \in DOMAIN tables) :
                /\ calls' = calls \o <<Call("get_table", probe), Call("create_table", create)>>
                /\ tables' = TablesAfterEnsure(tables, table_id, bq_schema.fields, probe, create)
                /\ tableRet' = EnsureTableEnds(probe, create)
         ELSE /\ calls' = Append(calls, Call("get_table", probe))
              /\ tables' = TablesAfterEnsure(tables, table_id, bq_schema.fields, probe, "none")
              /\ tableRet' = EnsureTableEnds(probe, "none")
    /\ GoTo(AfterEnsureTable(tableRet'),
            IF tableRet' = "False" THEN "table_failed" ELSE "unexpected_error")
    /\ UNCHANGED <<loopVars, table_id, partition_value, bq_schema, datasetExists,
                   bucket, loaded, schemaVars, inferVars>>

\* lines 209-212 with lines 125-137: the returned URI is never empty
upload_csv_to_gcs ==
    /\ pc = "upload"
    /\ \E up \in {"ok", "error"} :
         /\ calls' = Append(calls, Call("upload", up))
         /\ bucket' = IF up = "ok" THEN bucket \cup {entry.name} ELSE bucket
         /\ GoTo(IF up = "ok" THEN "load" ELSE AfterException, "unexpected_error")
    /\ UNCHANGED <<loopVars, localVars, datasetExists, tables, loaded, schemaVars, inferVars>>

\* lines 214-215 with lines 139-168
load_gcs_csv_to_bigquery ==
    /\ pc = "load"
    /\ \/ /\ calls' = Append(calls, Call("load_submit", "error"))
          /\ GoTo(AfterException, "unexpected_error")
          /\ UNCHANGED loaded
       \/ \E job \in {"ok", "error"} :
            /\ calls' = calls \o <<Call("load_submit", "ok"), Call("load_result", job)>>
            /\ loaded' = IF job = "ok" THEN loaded \cup {entry.name} ELSE loaded
            /\ GoTo("returned", IF job = "ok" THEN "loaded" ELSE "load_failed")
    /\ UNCHANGED <<loopVars, localVars, datasetExists, tables, bucket, schemaVars, inferVars>>

\* line 238: back in process_directory
FileDone ==
    /\ pc = "returned"
    /\ processed_files_count' = processed_files_count + 1
    /\ idx' = idx + 1
    /\ pc' = "loop"
    /\ UNCHANGED <<listing, handed, reports, calls, localVars, catalogVars, schemaVars, inferVars>>

\* lines 240-242
Summary ==
    /\ pc = "loop"
    /\ idx > Len(listing)
    /\ pc' = "finished"
    /\ UNCHANGED <<loopVars, reports, calls, localVars, catalogVars, schemaVars, inferVars>>

(***************************************************************************)
(* Specifications                                                          *)
(***************************************************************************)
\* os.listdir: the names of a directory are pairwise distinct
Listings ==
    {l \in SeqsUpTo(EntryUniverse, MaxFiles) :
        \A i, j \in 1..Len(l) : i # j => l[i].name # l[j].name}

\* a directory run: any listing, any catalog to start from
Init ==
    /\ IdleSchema
    /\ IdleInfer
    /\ listing \in Listings
    /\ idx = 1 /\ pc = "loop"
    /\ table_id = <<>> /\ partition_value = <<>> /\ bq_schema = NoneResult
    /\ tableRet = "none" /\ calls = <<>>
    /\ handed = [i \in 1..Len(listing) |-> 0]
    /\ processed_files_count = 0 /\ reports = <<>>
    /\ \E c \in CatalogUniverse : datasetExists = c.dataset /\ tables = c.tables
    /\ bucket = {} /\ loaded = {}

Next ==
    \/ NextEntry
    \/ Naming
    \/ ensure_bigquery_dataset_exists
    \/ InferSchema
    \/ ensure_bigquery_table_exists
    \/ upload_csv_to_gcs
    \/ load_gcs_csv_to_bigquery
    \/ FileDone
    \/ Summary

Spec == Init /\ [][Next]_vars

\* one call of get_table_schema_from_csv on any file
InitSchema ==
    /\ IdlePipe
    /\ IdleInfer
    /\ csvfile \in FileUniverse
    /\ spc = "open" /\ consumed = 0 /\ failedAt = 0
    /\ rows_for_inference = <<>> /\ columns_info = EmptyColumns
    /\ row_idx = 0 /\ result = NoneResult

NextSchema ==
    \/ ReadHeader
    \/ ReadRow
    \/ WidenRow
    \/ ReturnSchema

SpecSchema == InitSchema /\ [][NextSchema]_vars

\* calls of infer_column_type on any values, one after the other
InitInfer ==
    /\ IdlePipe
    /\ IdleSchema
    /\ cells \in SeqsUpTo(CellUniverse, MaxDataRows)
    /\ inferred = <<>>
    /\ inferRaised = FALSE

NextInfer == InferCell

SpecInfer == InitInfer /\ [][NextInfer]_vars

(***************************************************************************)
(* Properties                                                              *)
(***************************************************************************)
InFile == pc \in {"naming", "dataset", "schema", "table", "upload", "load", "returned"}
FileEnded == pc \in {"returned", "loop", "finished"}
LastCall == calls[Len(calls)]
LastReport == reports[Len(reports)]
IsRegularFile(i) == listing[i].isfile
EveryFileHandedOnce ==
    /\ \A i \in 1..Len(listing) : handed[i] = IF IsRegularFile(i) THEN 1 ELSE 0
    /\ processed_files_count = Cardinality({i \in 1..Len(listing) : IsRegularFile(i)})
    /\ Len(reports) = processed_files_count

\* some step of the run is enabled.  Naming and InferSchema choose nothing and
\* assign every variable, so each is enabled exactly when pc is at it.
CanTakeNextStep ==
    \/ pc \in {"naming", "schema"}
    \/ ENABLED (NextEntry \/ ensure_bigquery_dataset_exists
                  \/ ensure_bigquery_table_exists \/ upload_csv_to_gcs
                  \/ load_gcs_csv_to_bigquery \/ FileDone \/ Summary)

\* the orchestrator's step a collaborator call belongs to
StepOf(op) ==
    CASE op \in {"get_dataset", "create_dataset"} -> 1
      [] op = "infer_schema" -> 2
      [] op \in {"get_table", "create_table"} -> 3
      [] op = "upload" -> 4
      [] OTHER -> 5
\* step s has succeeded among the calls before position k
StepSucceededBefore(s, k) ==
    \E j \in 1..(k - 1) :
        CASE s = 1 -> calls[j] \in {Call("get_dataset", "found"), Call("create_dataset", "ok")}
          [] s = 2 -> calls[j] = Call("infer_schema", "ok")
          [] s = 3 -> calls[j] \in {Call("get_table", "found"), Call("create_table", "ok")}
          [] OTHER -> calls[j] = Call("upload", "ok")

\* C1: the calls issued for one file follow the order dataset-ensure,
\* schema-inference, table-ensure, stage-upload, warehouse-load; a step is
\* attempted only after every earlier step of the file succeeded, and no call
\* is issued twice for the file.
C1_StepsInOrderShortCircuit ==
    \A k \in 1..Len(calls) :
        /\ \A j \in 1..(k - 1) :
              /\ StepOf(calls[j].op) <= StepOf(calls[k].op)
              /\ calls[j].op # calls[k].op
        /\ \A s \in 1..(StepOf(calls[k].op) - 1) : StepSucceededBefore(s, k)
        /\ calls[k].op = "load_result" => calls[k - 1] = Call("load_submit", "ok")
\* a file whose first three steps succeeded and whose upload failed
C1_Witness ==
    /\ pc = "returned"
    /\ Len(calls) >= 4
    /\ LastCall = Call("upload", "error")

\* C2: no failure leaves process_and_upload_csv_data: the run is never aborted,
\* it can always take its next step until the summary, every regular file of
\* the listing is handed to the orchestrator at most once, and exactly once
\* when the summary is reached.
C2_NoFailureAbortsTheRun ==
    /\ pc \in {"loop", "naming", "dataset", "schema", "table", "upload", "load",
               "returned", "finished"}
    /\ \A i \in 1..Len(listing) : handed[i] <= 1 /\ (~IsRegularFile(i) => handed[i] = 0)
    /\ pc = "finished" => EveryFileHandedOnce
    /\ pc # "finished" => CanTakeNextStep
\* the summary reached after the first file ended in a caught exception and the
\* second was loaded
C2_Witness ==
    /\ pc = "finished"
    /\ Len(reports) = 2
    /\ reports[1] = "unexpected_error"
    /\ reports[2] = "loaded"

\* C3: a create call directly follows an existence probe that answered "not
\* found"; a probe that failed otherwise is the file's last call (no create),
\* and ends the dataset step with an exception and the table step with False.
C3_CreateOnlyAfterNotFound ==
    \A k \in 1..Len(calls) :
        /\ calls[k].op = "create_dataset" =>
              k > 1 /\ calls[k - 1] = Call("get_dataset", "notfound")
        /\ calls[k].op = "create_table" =>
              k > 1 /\ calls[k - 1] = Call("get_table", "notfound")
        /\ calls[k] = Call("get_dataset", "error") =>
              k = Len(calls) /\ FileEnded /\ LastReport = "unexpected_error"
        /\ calls[k] = Call("get_table", "error") =>
              k = Len(calls) /\ FileEnded /\ tableRet = "False"
                /\ LastReport = "table_failed"
\* a table probe that failed with an error other than "not found"
C3_Witness ==
    /\ pc = "returned"
    /\ calls # <<>>
    /\ LastCall = Call("get_table", "error")
    /\ tableRet = "False"

\* C4: when the table probe answers "not found" and the creation fails,
\* ensure_bigquery_table_exists returns False.
C4_CreateFailureReturnsFalse ==
    (/\ Len(calls) >= 2
     /\ LastCall = Call("create_table", "error")
     /\ calls[Len(calls) - 1] = Call("get_table", "notfound"))
    => tableRet = "False"

\* C5: a call of ensure_bigquery_table_exists made while its table is in the
\* catalog issues no create call for it.
C5_NoCreateOnceTableExists ==
    [][(pc = "table" /\ table_id \in DOMAIN tables)
        => \A k \in 1..Len(calls') : calls'[k].op # "create_table"]_vars
\* a later file finds the table an earlier file of the run created
C5_Witness ==
    /\ pc = "upload"
    /\ Len(reports) >= 1
    /\ LastCall = Call("get_table", "found")
    /\ tables[table_id] # PreexistingSchema

\* the join of a set of types in INTEGER < FLOAT < STRING
Join(types) ==
    IF "STRING" \in types THEN "STRING"
    ELSE IF "FLOAT" \in types THEN "FLOAT"
    ELSE "INTEGER"
\* the values sampled for the column of identifier name
SampledValues(name) ==
    LET headers == csvfile.lines[1].fields
    IN {rows_for_inference[r][j] :
          <<r, j>> \in {rj \in (1..Len(rows_for_inference)) \X (1..Len(headers)) :
                          /\ rj[2] <= Len(rows_for_inference[rj[1]])
                          /\ sanitized_header(headers[rj[2]]) = name}}

\* C6: in a returned schema, the type of every column with sampled values is the
\* join of infer_column_type over those values.
C6_FinalTypeIsJoin ==
    (spc = "done" /\ result.ok) =>
        \A k \in 1..Len(result.fields) :
            LET vals == SampledValues(result.fields[k].name)
            IN vals # {} =>
                 result.fields[k].type = Join({infer_column_type(v) : v \in vals})

\* the parts of a base name around the first occurrence of the marker
FirstMarker(s) == CHOOSE i \in 1..Len(s) : s[i] = Marker /\ \A k \in 1..(i - 1) : s[k] # Marker
HasMarker(s) == \E i \in 1..Len(s) : s[i] = Marker
PrefixOfFirstMarker(s) == SubSeq(s, 1, FirstMarker(s) - 1)
SuffixOfFirstMarker(s) == SubSeq(s, FirstMarker(s) + 1, Len(s))
\* the naming convention rejects the file name
ConventionRejects(filename) ==
    LET se == splitext(filename)
    IN \/ LowerName(se.ext) # <<".csv">>
       \/ ~HasMarker(se.root)
       \/ PrefixOfFirstMarker(se.root) = <<>>
       \/ SuffixOfFirstMarker(se.root) = <<>>

\* C7: for a file name the convention accepts, the partition value is the whole
\* suffix after the first marker, and the file is not skipped by the naming step.
C7_PartitionIsSuffixOfFirstMarker ==
    (/\ pc \in {"dataset", "schema", "table", "upload", "load", "returned"}
     /\ ~ConventionRejects(entry.name))
    => /\ partition_value = SuffixOfFirstMarker(splitext(entry.name).root)
       /\ pc = "returned" => LastReport # "no_partition_value"

\* C8: a file the naming convention rejects issues no collaborator call: its
\* processing goes from the naming step straight to its end, with a skip message.
C8_RejectedFileIssuesNoCall ==
    (InFile /\ ConventionRejects(entry.name)) =>
        /\ calls = <<>>
        /\ pc \in {"naming", "returned"}
        /\ pc = "returned" =>
              LastReport \in {"not_csv", "no_marker", "no_table_id", "no_partition_value"}
\* a csv file skipped for its name
C8_Witness ==
    /\ pc = "returned"
    /\ ConventionRejects(entry.name)
    /\ LowerName(splitext(entry.name).ext) = <<".csv">>
    /\ calls = <<>>

\* the file cut after its first num_rows_for_inference data rows
Truncated(file) ==
    [file EXCEPT !.lines = SubSeq(@, 1, IF Len(@) < num_rows_for_inference + 1
                                        THEN Len(@) ELSE num_rows_for_inference + 1)]

\* C9: at most num_rows_for_inference data rows are pulled from the reader, and
\* the outcome is the one the header and the first num_rows_for_inference rows
\* alone give.
C9_ReadsAtMostLimitRows ==
    /\ consumed <= num_rows_for_inference
    /\ spc = "done" => result = get_table_schema_from_csv(Truncated(csvfile))

\* C10: when the schema inference of a file fails, it is the file's last call:
\* the dataset probe was issued once, no table probe or create, upload or load
\* follows, the file ends with the schema message, and the run goes on to the
\* summary with every file handed over.
C10_SchemaFailureStopsOnlyTheFile ==
    \A k \in 1..Len(calls) :
        (calls[k].op = "infer_schema" /\ calls[k].res # "ok") =>
            /\ k = Len(calls)
            /\ Cardinality({j \in 1..Len(calls) : calls[j].op = "get_dataset"}) = 1
            /\ \A j \in 1..Len(calls) :
                  calls[j].op \notin {"get_table", "create_table", "upload",
                                      "load_submit", "load_result"}
            /\ FileEnded
            /\ LastReport = "schema_failed"
            /\ pc = "finished" => EveryFileHandedOnce
            /\ pc # "finished" => CanTakeNextStep
\* the file after one whose inference failed is loaded
C10_Witness ==
    /\ pc = "finished"
    /\ Len(reports) = 2
    /\ reports[1] = "schema_failed"
    /\ reports[2] = "loaded"

\* C11: ensure_bigquery_table_exists ends with True exactly when its probe found
\* the table or its create call succeeded; the table is then in the catalog,
\* and it is in the catalog whenever the upload or the load is attempted.
C11_TrueMeansTableExists ==
    /\ tableRet = "True" <=>
          \E k \in 1..Len(calls) :
              calls[k] \in {Call("get_table", "found"), Call("create_table", "ok")}
    /\ tableRet = "True" => table_id \in DOMAIN tables
    /\ pc \in {"upload", "load"} => table_id \in DOMAIN tables
    /\ \A k \in 1..Len(calls) :
          calls[k].op \in {"upload", "load_submit", "load_result"} =>
              table_id \in DOMAIN tables
\* the load is about to be attempted on a table the call just created
C11_Witness ==
    /\ pc = "load"
    /\ tableRet = "True"
    /\ \E k \in 1..Len(calls) : calls[k] = Call("create_table", "ok")

\* C12: no step removes the dataset or a table from the catalog, and a table
\* that is in the catalog keeps its schema.
C12_CatalogOnlyGrows ==
    [][/\ datasetExists => datasetExists'
       /\ \A t \in DOMAIN tables : t \in DOMAIN tables' /\ tables'[t] = tables[t]]_vars
\* a file whose load failed on an existing table of another schema
C12_Witness ==
    /\ pc = "returned"
    /\ LastReport = "load_failed"
    /\ table_id \in DOMAIN tables
    /\ tables[table_id] # bq_schema.fields

\* get_table_schema_from_csv on a readable header and the rows sampled
SchemaOf(headers, rows) ==
    LET final == WidenLoop([ci |-> HeaderLoop(EmptyColumns, headers, 1), raised |-> FALSE],
                           headers, rows, 1)
    IN IF final.raised THEN NoneResult ELSE [ok |-> TRUE, fields |-> SchemaFields(final.ci)]
SamplingEnded == spc = "done" /\ csvfile.readable /\ Len(csvfile.lines) > 0
                    /\ csvfile.lines[1].ok /\ failedAt = 0

\* C13: the outcome of the inference is the same for every order of the
\* sampled rows.
C13_RowOrderInsensitive ==
    SamplingEnded =>
        \A p \in Permutations(1..Len(rows_for_inference)) :
            SchemaOf(csvfile.lines[1].fields,
                     [i \in 1..Len(rows_for_inference) |-> rows_for_inference[p[i]]]) = result
\* a schema returned from two different sampled rows
C13_Witness ==
    /\ spc = "done"
    /\ result.ok
    /\ Len(result.fields) > 0
    /\ Len(rows_for_inference) = 2
    /\ rows_for_inference[1] # rows_for_inference[2]

\* the characters of [a-z0-9_] in the alphabet of the model
AsciiIdentifierChars == {"a", "1", "_"}

\* C14: every column identifier is a fixed point of the sanitization and is
\* made of characters of [a-z0-9_] only.
C14_SanitizedIsAsciiIdentifier ==
    \A k \in 1..Len(columns_info.order) :
        LET name == columns_info.order[k]
        IN /\ sanitized_header(name) = name
           /\ \A i \in 1..Len(name) : name[i] \in AsciiIdentifierChars

\* a <= b in INTEGER < FLOAT < STRING
LatticeLeq(a, b) ==
    \/ a = b
    \/ a = "INTEGER" /\ b \in {"FLOAT", "STRING"}
    \/ a = "FLOAT" /\ b = "STRING"

\* C16: folding a sampled row into columns_info moves no column's type
\* downward; in particular a STRING column stays STRING.
C16_TypesOnlyWiden ==
    [][spc = "widen" =>
          \A n \in DOMAIN columns_info.type :
              /\ n \in DOMAIN columns_info'.type
              /\ LatticeLeq(columns_info.type[n], columns_info'.type[n])]_vars
\* two rows folded, a STRING column having received an INTEGER value
C16_Witness ==
    /\ spc = "widen"
    /\ row_idx = 2
    /\ \E n \in DOMAIN columns_info.type :
          /\ columns_info.type[n] = "STRING"
          /\ "INTEGER" \in {infer_column_type(v) : v \in SampledValues(n)}

\* the cells of the sampled rows that stand under a header
SampledCells ==
    {rows_for_inference[rj[1]][rj[2]] :
        rj \in {x \in (1..Len(rows_for_inference)) \X (1..Len(csvfile.lines[1].fields)) :
                  x[2] <= Len(rows_for_inference[x[1]])}}

\* C17: infer_column_type gives a type for every sampled cell, and a file whose
\* header and rows were all read gets a schema.
C17_InferenceTotalOnText ==
    SamplingEnded =>
        /\ \A v \in SampledCells :
              infer_column_type(v) \in {"STRING", "INTEGER", "FLOAT", "BOOLEAN"}
        /\ result.ok

RECURSIVE FirstSeenUpTo(_, _)
\* the elements of seq[1..n] without the repeats of an earlier element
FirstSeenUpTo(seq, n) ==
    IF n = 0 THEN <<>>
    ELSE LET prev == FirstSeenUpTo(seq, n - 1)
         IN IF \E k \in 1..(n - 1) : seq[k] = seq[n] THEN prev ELSE Append(prev, seq[n])

\* C18: the identifiers of a returned schema are pairwise distinct and are the
\* sanitized headers in the order of their first occurrence.
C18_DistinctFirstSeenOrder ==
    (SamplingEnded /\ result.ok) =>
        LET headers == csvfile.lines[1].fields
            ids == [j \in 1..Len(headers) |-> sanitized_header(headers[j])]
            names == [k \in 1..Len(result.fields) |-> result.fields[k].name]
        IN /\ names = FirstSeenUpTo(ids, Len(ids))
           /\ \A i, j \in 1..Len(names) : i # j => names[i] # names[j]
\* three headers of two identifiers
C18_Witness ==
    /\ spc = "done"
    /\ result.ok
    /\ Len(csvfile.lines[1].fields) = 3
    /\ Len(result.fields) = 2
    /\ Len(rows_for_inference) > 0

\* C19: an inference that returns no column ends the file like one that
\* returns None: it is the file's last call, no table probe or create, upload
\* or load follows, and no table of the catalog has an empty schema.
C19_EmptySchemaStopsTheFile ==
    /\ \A t \in DOMAIN tables : Len(tables[t]) > 0
    /\ pc \in {"table", "upload", "load"} => Len(bq_schema.fields) > 0
    /\ \A k \in 1..Len(calls) :
          (calls[k].op = "infer_schema" /\ calls[k].res \in {"empty", "error"}) =>
              /\ k = Len(calls)
              /\ FileEnded
              /\ LastReport = "schema_failed"
              /\ tableRet = "none"
\* a file whose first line is blank: the inference returned []
C19_Witness ==
    /\ pc = "returned"
    /\ calls # <<>>
    /\ LastCall = Call("infer_schema", "empty")
    /\ bq_schema.ok

\* the type C15 states for a value
StatedType(value) ==
    LET f == ParseFloat(value)
    IN IF value \in {PyNone, ""} THEN {"STRING"}
       ELSE IF f.kind = "finite" /\ f.num % f.den = 0 THEN {"INTEGER"}
       ELSE IF f.kind = "finite" THEN {"FLOAT"}
       ELSE IF f.kind = "error" /\ value \notin {PyTrue, PyFalse} THEN {"STRING"}
       ELSE {"STRING", "INTEGER", "FLOAT", "BOOLEAN"}

====
